---------------------------- MODULE Spec2Model ----------------------------
(***************************************************************************)
(* Terrain height-query subsystem: the ITRI triangle codec, the XZ         *)
(* quadtree ("octree") index, the height queries of terrainUtils and of    *)
(* Scene.tsx, and the loaders that fill the two terrain data stores.       *)
(*                                                                         *)
(* Arithmetic.  The source computes in IEEE doubles.  The model computes   *)
(* the same expressions exactly over the integers: every terrain and every *)
(* query point of the model has integer world coordinates, the quantized   *)
(* raw values are chosen so that dequantization is exact, and root         *)
(* rectangles that get subdivided have even extents down to the depth that *)
(* is reached, so every \div below divides exactly.  A read past the end  *)
(* of a typed array (undefined, hence NaN in arithmetic) is the decoded    *)
(* value NaNTriangle; every comparison with NaN is false.                  *)
(***************************************************************************)
EXTENDS Integers, Sequences, FiniteSets, TLC

(***************************************************************************)
(* Program constants                                                       *)
(***************************************************************************)
U16Max == 65535
I16Max == 32767
MinTrianglesToSplit == 500
MaxDepth == 6
SampleStride == 100
HighY == 450
DefaultLastValidHeight == 2
DefaultSearchRadius == 50
ITRIVersion == 1
HeaderEnd == 72
Infinity == 1000000
EpsilonInv == 10000000

Null == [null |-> TRUE]

Min2(a, b) == IF a <= b THEN a ELSE b
Max2(a, b) == IF a >= b THEN a ELSE b
Min3(a, b, c) == Min2(a, Min2(b, c))
Max3(a, b, c) == Max2(a, Max2(b, c))
Abs(a) == IF a < 0 THEN -a ELSE a
Sgn(a) == IF a < 0 THEN -1 ELSE IF a > 0 THEN 1 ELSE 0

(***************************************************************************)
(* three.js Vector3                                                        *)
(***************************************************************************)
Vector3(x, y, z) == [x |-> x, y |-> y, z |-> z]
subVectors(a, b) == Vector3(a.x - b.x, a.y - b.y, a.z - b.z)
addVectors(a, b) == Vector3(a.x + b.x, a.y + b.y, a.z + b.z)
crossVectors(a, b) ==
    Vector3(a.y * b.z - a.z * b.y, a.z * b.x - a.x * b.z, a.x * b.y - a.y * b.x)
dot(a, b) == a.x * b.x + a.y * b.y + a.z * b.z

(***************************************************************************)
(* rayTriangleIntersect: Moller-Trumbore.  f = 1/a, so u, v and t are the  *)
(* fractions un/d, vn/d, tn/d with d = |a|.  With integer operands         *)
(* |a| < 1e-7 is a = 0 and t > 1e-7 is tn * 10^7 > d.                      *)
(***************************************************************************)
NoHit == [hit |-> FALSE, t |-> 0]

\* faulty variant: t is returned without the test t > EPSILON, also for a
\* triangle at or above the ray origin
rayTriangleIntersect_noEps(rayOrigin, rayDir, v0, v1, v2) ==
    LET edge1 == subVectors(v1, v0)
        edge2 == subVectors(v2, v0)
        h == crossVectors(rayDir, edge2)
        a == dot(edge1, h)
        d == Abs(a)
        s == subVectors(rayOrigin, v0)
        un == Sgn(a) * dot(s, h)
        q == crossVectors(s, edge1)
        vn == Sgn(a) * dot(rayDir, q)
        tn == Sgn(a) * dot(edge2, q)
    IN  IF a = 0 THEN NoHit
        ELSE IF un < 0 \/ un > d THEN NoHit
        ELSE IF vn < 0 \/ un + vn > d THEN NoHit
        ELSE [hit |-> TRUE, t |-> tn \div d]

\* faulty variant: the barycentric tests exclude the triangle's edges
rayTriangleIntersect_strict(rayOrigin, rayDir, v0, v1, v2) ==
    LET edge1 == subVectors(v1, v0)
        edge2 == subVectors(v2, v0)
        h == crossVectors(rayDir, edge2)
        a == dot(edge1, h)
        d == Abs(a)
        s == subVectors(rayOrigin, v0)
        un == Sgn(a) * dot(s, h)
        q == crossVectors(s, edge1)
        vn == Sgn(a) * dot(rayDir, q)
        tn == Sgn(a) * dot(edge2, q)
    IN  IF a = 0 THEN NoHit
        ELSE IF un <= 0 \/ un >= d THEN NoHit
        ELSE IF vn <= 0 \/ un + vn >= d THEN NoHit
        ELSE IF tn > d \div EpsilonInv THEN [hit |-> TRUE, t |-> tn \div d]
        ELSE NoHit

rayTriangleIntersect(rayOrigin, rayDir, v0, v1, v2) ==
    LET edge1 == subVectors(v1, v0)
        edge2 == subVectors(v2, v0)
        h == crossVectors(rayDir, edge2)
        a == dot(edge1, h)
        d == Abs(a)
        s == subVectors(rayOrigin, v0)
        un == Sgn(a) * dot(s, h)
        q == crossVectors(s, edge1)
        vn == Sgn(a) * dot(rayDir, q)
        tn == Sgn(a) * dot(edge2, q)
    IN  IF a = 0 THEN NoHit
        ELSE IF un < 0 \/ un > d THEN NoHit
        ELSE IF vn < 0 \/ un + vn > d THEN NoHit
        ELSE IF tn > d \div EpsilonInv THEN [hit |-> TRUE, t |-> tn \div d]
        ELSE NoHit

(***************************************************************************)
(* decodeTriangle.  Arrays are 0-based in the source, 1-based here.        *)
(***************************************************************************)
NaNTriangle == [nan |-> TRUE]

DequantBase(raw, lo, hi) == lo + (raw * (hi - lo)) \div U16Max
DequantEdge(raw, vecRange) == (raw * vecRange) \div I16Max
applyRotation(v) == Vector3(v.x, v.z, -v.y)

decodeTriangle(idx, data) ==
    LET i == idx * 3 IN
    IF i + 3 > Len(data.v0_u16) THEN NaNTriangle
    ELSE
    LET v0 == Vector3(DequantBase(data.v0_u16[i + 1], data.bmin.x, data.bmax.x),
                      DequantBase(data.v0_u16[i + 2], data.bmin.y, data.bmax.y),
                      DequantBase(data.v0_u16[i + 3], data.bmin.z, data.bmax.z))
        x == Vector3(DequantEdge(data.x_i16[i + 1], data.vecRange),
                     DequantEdge(data.x_i16[i + 2], data.vecRange),
                     DequantEdge(data.x_i16[i + 3], data.vecRange))
        y == Vector3(DequantEdge(data.y_i16[i + 1], data.vecRange),
                     DequantEdge(data.y_i16[i + 2], data.vecRange),
                     DequantEdge(data.y_i16[i + 3], data.vecRange))
    IN  [nan |-> FALSE,
         v0 |-> applyRotation(v0),
         v1 |-> applyRotation(addVectors(v0, x)),
         v2 |-> applyRotation(addVectors(v0, y))]

\* XZ bounding box of a decoded triangle (Math.min / Math.max of the three vertices)
TriBox(tri) ==
    [minX |-> Min3(tri.v0.x, tri.v1.x, tri.v2.x),
     maxX |-> Max3(tri.v0.x, tri.v1.x, tri.v2.x),
     minZ |-> Min3(tri.v0.z, tri.v1.z, tri.v2.z),
     maxZ |-> Max3(tri.v0.z, tri.v1.z, tri.v2.z)]


(***************************************************************************)
(* OctreeNode: children = <<>> is the source's null, else four nodes.      *)
(***************************************************************************)
OctreeNode(bounds, triangles) ==
    [bounds |-> bounds, triangles |-> triangles, children |-> <<>>]

Bounds(minX, maxX, minZ, maxZ) ==
    [minX |-> minX, maxX |-> maxX, minZ |-> minZ, maxZ |-> maxZ]

\* faulty variant: the overlap test with strict comparisons (edge-exclusive)
TriOverlaps_strict(tri, b) ==
    /\ ~tri.nan
    /\ LET t == TriBox(tri) IN
         /\ t.maxX > b.minX /\ t.minX < b.maxX
         /\ t.maxZ > b.minZ /\ t.minZ < b.maxZ

\* the edge-inclusive overlap test of subdivideOctree; false for a NaN triangle
TriOverlaps(tri, b) ==
    /\ ~tri.nan
    /\ LET t == TriBox(tri) IN
         /\ t.maxX >= b.minX /\ t.minX <= b.maxX
         /\ t.maxZ >= b.minZ /\ t.minZ <= b.maxZ

\* faulty variant: the second child keeps the parent's minX
ChildBounds_wide(b) ==
    LET midX == (b.minX + b.maxX) \div 2
        midZ == (b.minZ + b.maxZ) \div 2
    IN  << Bounds(b.minX, midX, b.minZ, midZ),
           Bounds(b.minX, b.maxX, b.minZ, midZ),
           Bounds(b.minX, midX, midZ, b.maxZ),
           Bounds(midX, b.maxX, midZ, b.maxZ) >>

ChildBounds(b) ==
    LET midX == (b.minX + b.maxX) \div 2
        midZ == (b.minZ + b.maxZ) \div 2
    IN  << Bounds(b.minX, midX, b.minZ, midZ),
           Bounds(midX, b.maxX, b.minZ, midZ),
           Bounds(b.minX, midX, midZ, b.maxZ),
           Bounds(midX, b.maxX, midZ, b.maxZ) >>

\* faulty variant: the depth test is off by one (depth > maxDepth)
RECURSIVE subdivideOctree_deeper(_, _, _, _)
subdivideOctree_deeper(node, depth, maxDepth, data) ==
    IF depth > maxDepth \/ Len(node.triangles) < MinTrianglesToSplit THEN node
    ELSE
    LET cb == ChildBounds(node.bounds)
        n == Len(node.triangles)
        tris == [k \in 1..n |-> decodeTriangle(node.triangles[k], data)]
        pick(c) == LET keep == {k \in 1..n : TriOverlaps(tris[k], cb[c])}
                   IN  SelectSeq([k \in 1..n |-> IF k \in keep THEN node.triangles[k] ELSE -1],
                                 LAMBDA e : e >= 0)
    IN  [bounds |-> node.bounds,
         triangles |-> <<>>,
         children |-> [c \in 1..4 |->
                         subdivideOctree_deeper(OctreeNode(cb[c], pick(c)), depth + 1, maxDepth, data)]]

RECURSIVE subdivideOctree(_, _, _, _)
subdivideOctree(node, depth, maxDepth, data) ==
    IF depth >= maxDepth \/ Len(node.triangles) < MinTrianglesToSplit THEN node
    ELSE
    LET cb == ChildBounds(node.bounds)
        n == Len(node.triangles)
        tris == [k \in 1..n |-> decodeTriangle(node.triangles[k], data)]
        pick(c) == LET keep == {k \in 1..n : TriOverlaps(tris[k], cb[c])}
                   IN  SelectSeq([k \in 1..n |-> IF k \in keep THEN node.triangles[k] ELSE -1],
                                 LAMBDA e : e >= 0)
    IN  [bounds |-> node.bounds,
         triangles |-> <<>>,
         children |-> [c \in 1..4 |->
                         subdivideOctree(OctreeNode(cb[c], pick(c)), depth + 1, maxDepth, data)]]

\* the sampling loop of buildTerrainOctree: i = 0, 100, 200, ... < count
RECURSIVE SampleBounds(_, _, _)
SampleBounds(i, b, data) ==
    IF i >= data.count THEN b
    ELSE LET t == TriBox(decodeTriangle(i, data))
         IN  SampleBounds(i + SampleStride,
                          Bounds(Min2(b.minX, t.minX), Max2(b.maxX, t.maxX),
                                 Min2(b.minZ, t.minZ), Max2(b.maxZ, t.maxZ)),
                          data)

\* faulty variant: the root is published without being subdivided
BuildTree_rootOnly(data) ==
    OctreeNode(SampleBounds(0, Bounds(Infinity, -Infinity, Infinity, -Infinity), data),
               [k \in 1..data.count |-> k - 1])

\* the tree buildTerrainOctree assigns to octree (terrainData non-null)
BuildTree(data) ==
    LET root == OctreeNode(SampleBounds(0, Bounds(Infinity, -Infinity, Infinity, -Infinity), data),
                           [k \in 1..data.count |-> k - 1])
    IN  subdivideOctree(root, 0, MaxDepth, data)

(***************************************************************************)
(* queryOctree: the explicit stack loop.                                   *)
(***************************************************************************)
\* faulty variant: the upper edges of a rectangle are excluded
InBounds_halfOpen(x, z, b) == ~(x < b.minX \/ x >= b.maxX \/ z < b.minZ \/ z >= b.maxZ)

InBounds(x, z, b) == ~(x < b.minX \/ x > b.maxX \/ z < b.minZ \/ z > b.maxZ)

RECURSIVE queryLoop(_, _, _, _)
queryLoop(stack, result, x, z) ==
    IF stack = <<>> THEN result
    ELSE LET node == stack[Len(stack)]
             rest == SubSeq(stack, 1, Len(stack) - 1)
         IN  IF ~InBounds(x, z, node.bounds) THEN queryLoop(rest, result, x, z)
             ELSE IF node.children # <<>>
                  THEN queryLoop(rest \o node.children, result, x, z)
                  ELSE queryLoop(rest, result \o node.triangles, x, z)

queryOctree(x, z, tree, ready) ==
    IF tree = Null \/ ~ready THEN <<>> ELSE queryLoop(<<tree>>, <<>>, x, z)

(***************************************************************************)
(* The candidate loop shared by the height queries: closest hit of the     *)
(* vertical ray from (x, 450, z) over the listed triangle indices.         *)
(***************************************************************************)
NoClosest == [found |-> FALSE, y |-> 0]

RayHit(x, z, triIdx, data) ==
    LET tri == decodeTriangle(triIdx, data) IN
    IF tri.nan THEN NoHit
    ELSE rayTriangleIntersect(Vector3(x, HighY, z), Vector3(0, -1, 0), tri.v0, tri.v1, tri.v2)

\* before the loop: closestY = null, closestDist = Infinity
closestInit == [found |-> FALSE, closestDist |-> Infinity, y |-> 0]

\* faulty variant: the first hit is kept, closer ones after it are ignored
closestStep_first(acc, h) ==
    IF h.hit /\ ~acc.found
    THEN [found |-> TRUE, closestDist |-> h.t, y |-> HighY - h.t]
    ELSE acc

\* faulty variant: a second hit at the distance kept cancels the first
closestStep_cancel(acc, h) ==
    IF h.hit /\ h.t < acc.closestDist
    THEN [found |-> TRUE, closestDist |-> h.t, y |-> HighY - h.t]
    ELSE IF h.hit /\ h.t = acc.closestDist
    THEN [found |-> ~acc.found, closestDist |-> acc.closestDist, y |-> acc.y]
    ELSE acc

\* one iteration: if (t !== null && t < closestDist) { closestDist = t; closestY = 450 - t }
closestStep(acc, h) ==
    IF h.hit /\ h.t < acc.closestDist
    THEN [found |-> TRUE, closestDist |-> h.t, y |-> HighY - h.t]
    ELSE acc

\* iterations lo..hi of the loop, in order, starting from acc (the range is
\* halved, and acc is looked at first, so that the evaluation depth stays
\* logarithmic)
RECURSIVE closestLoop(_, _, _, _)
closestLoop(hits, lo, hi, acc) ==
    IF lo > hi \/ acc.closestDist > Infinity THEN acc
    ELSE IF lo = hi THEN closestStep(acc, hits[lo])
    ELSE LET mid == (lo + hi) \div 2
         IN  closestLoop(hits, mid + 1, hi, closestLoop(hits, lo, mid, acc))

ClosestOver(cands, x, z, data) ==
    LET hits == [k \in 1..Len(cands) |-> RayHit(x, z, cands[k], data)]
        r == closestLoop(hits, 1, Len(cands), closestInit)
    IN  [found |-> r.found, y |-> r.y]

\* faulty variant: the not-ready path answers the default 2 (as Scene.tsx's
\* getTerrainHeightFast does) instead of the caller's lastValidHeight
getTerrainHeightFromOctree_default(x, z, lastValidHeight, data, tree, ready) ==
    IF data = Null \/ tree = Null \/ ~ready THEN DefaultLastValidHeight
    ELSE LET nearbyTriangles == queryOctree(x, z, tree, ready) IN
         IF Len(nearbyTriangles) = 0 THEN lastValidHeight
         ELSE LET c == ClosestOver(nearbyTriangles, x, z, data)
              IN  IF ~c.found THEN lastValidHeight ELSE c.y

\* faulty variant: an empty candidate list answers the default 2
getTerrainHeightFromOctree_emptyDefault(x, z, lastValidHeight, data, tree, ready) ==
    IF data = Null \/ tree = Null \/ ~ready THEN lastValidHeight
    ELSE LET nearbyTriangles == queryOctree(x, z, tree, ready) IN
         IF Len(nearbyTriangles) = 0 THEN DefaultLastValidHeight
         ELSE LET c == ClosestOver(nearbyTriangles, x, z, data)
              IN  IF ~c.found THEN lastValidHeight ELSE c.y

\* faulty variant: without the guard of the first line, destructuring
\* terrainData throws a TypeError whenever it is null
getTerrainHeightFromOctreeThrows_noGuard(data, tree, ready) == data = Null

\* The call throws instead of returning where it destructures terrainData
\* while that is null; the guard of the first line returns before it.  The
\* typed-array reads of decodeTriangle give undefined past the end, they do
\* not throw, and the diagnostic branch formats numbers only.
getTerrainHeightFromOctreeThrows(data, tree, ready) ==
    ~(data = Null \/ tree = Null \/ ~ready) /\ data = Null

getTerrainHeightFromOctree(x, z, lastValidHeight, data, tree, ready) ==
    IF data = Null \/ tree = Null \/ ~ready THEN lastValidHeight
    ELSE LET nearbyTriangles == queryOctree(x, z, tree, ready) IN
         IF Len(nearbyTriangles) = 0 THEN lastValidHeight
         ELSE LET c == ClosestOver(nearbyTriangles, x, z, data)
              IN  IF ~c.found THEN lastValidHeight ELSE c.y

\* faulty variant: the reject tests the base vertex, not the bounding box
InRadius_v0(x, z, searchRadius, tri) ==
    ~(tri.v0.x < x - searchRadius \/ tri.v0.x > x + searchRadius \/
      tri.v0.z < z - searchRadius \/ tri.v0.z > z + searchRadius)

\* findTerrainHeight: the search-radius reject, then the same ray test
InRadius(x, z, searchRadius, tri) ==
    LET t == TriBox(tri) IN
    ~(t.maxX < x - searchRadius \/ t.minX > x + searchRadius \/
      t.maxZ < z - searchRadius \/ t.minZ > z + searchRadius)

findTerrainHeight(x, z, searchRadius, data) ==
    IF data = Null THEN [found |-> FALSE, y |-> 0]
    ELSE LET tris == [k \in 1..data.count |-> decodeTriangle(k - 1, data)]
             hits == {h \in {rayTriangleIntersect(Vector3(x, HighY, z), Vector3(0, -1, 0),
                                                  tris[k].v0, tris[k].v1, tris[k].v2) :
                             k \in {j \in 1..data.count : InRadius(x, z, searchRadius, tris[j])}} :
                      h.hit}
         IN  IF hits = {} THEN [found |-> FALSE, y |-> 0]
             ELSE [found |-> TRUE,
                   y |-> HighY - (CHOOSE m \in {h.t : h \in hits} :
                                     \A o \in {h.t : h \in hits} : m <= o)]

(***************************************************************************)
(* The copy of the height query in ecs/Scene.tsx.  Its decodeTriangle and  *)
(* rayTriangleIntersect are the same text as terrainUtils'; its queryOctree *)
(* has no ready flag and its getTerrainHeightFast starts closestY at 2.    *)
(***************************************************************************)
SceneDefaultHeight == 2

sceneQueryOctree(x, z, tree) ==
    IF tree = Null THEN <<>> ELSE queryLoop(<<tree>>, <<>>, x, z)

\* faulty variant: closestY starts at 0
getTerrainHeightFast_zero(x, z, data, tree) ==
    IF data = Null \/ tree = Null THEN SceneDefaultHeight
    ELSE LET nearbyTriangles == sceneQueryOctree(x, z, tree)
             hits == [k \in 1..Len(nearbyTriangles) |-> RayHit(x, z, nearbyTriangles[k], data)]
         IN  closestLoop(hits, 1, Len(nearbyTriangles),
                         [found |-> FALSE, closestDist |-> Infinity, y |-> 0]).y

getTerrainHeightFast(x, z, data, tree) ==
    IF data = Null \/ tree = Null THEN SceneDefaultHeight
    ELSE LET nearbyTriangles == sceneQueryOctree(x, z, tree)
             hits == [k \in 1..Len(nearbyTriangles) |-> RayHit(x, z, nearbyTriangles[k], data)]
         IN  closestLoop(hits, 1, Len(nearbyTriangles),
                         [found |-> FALSE, closestDist |-> Infinity, y |-> SceneDefaultHeight]).y

(***************************************************************************)
(* Terrains of the model.  A terrain is given by world-space triangles     *)
(* (base point p, edges e1, e2) and quantized the way the exporter does:   *)
(* asset space is (X, -Z, Y), base components are multiples of 257 over a  *)
(* box of extent 255, edge components multiples of 151 with vecRange 217,  *)
(* so that decodeTriangle gives back the integer world coordinates.        *)
(***************************************************************************)
BigExtra == 3
BigCount == MinTrianglesToSplit + BigExtra

Tri(px, py, pz, ax, ay, az, bx, by, bz) ==
    [p |-> Vector3(px, py, pz), e1 |-> Vector3(ax, ay, az), e2 |-> Vector3(bx, by, bz)]

Flatten3(n, f(_, _)) == [k \in 1..(3 * n) |-> f((k - 1) \div 3, (k - 1) % 3)]

QuantBmin == Vector3(0, -255, 0)
QuantBmax == Vector3(255, 0, 255)

MakeTerrain(tris) ==
    LET n == Len(tris)
        asset(v, c) == IF c = 0 THEN v.x ELSE IF c = 1 THEN -v.z ELSE v.y
        lo(c) == IF c = 1 THEN QuantBmin.y ELSE 0
        base(i, c) == 257 * (asset(tris[i + 1].p, c) - lo(c))
        ex(i, c) == 151 * asset(tris[i + 1].e1, c)
        ey(i, c) == 151 * asset(tris[i + 1].e2, c)
    IN  [count |-> n,
         v0_u16 |-> Flatten3(n, base),
         x_i16 |-> Flatten3(n, ex),
         y_i16 |-> Flatten3(n, ey),
         bmin |-> QuantBmin,
         bmax |-> QuantBmax,
         vecRange |-> 217]

\* zero triangles
EmptyTerrain == MakeTerrain(<<>>)
\* the square [0,2]^2 at Y = 0 split along its diagonal: the spec's unit-square
\* scenario in half units, so that its centre is the integer point (1, 1)
Square == MakeTerrain(<< Tri(0, 0, 0, 2, 0, 0, 0, 0, 2), Tri(2, 0, 2, 0, 0, -2, -2, 0, 0) >>)
\* two triangles; the second lies outside the bounding box of the first
Apart == MakeTerrain(<< Tri(0, 1, 0, 2, 0, 0, 0, 0, 2), Tri(4, 3, 4, 2, 0, 0, 0, 0, 2) >>)
\* a flat triangle at Y = 1 under a sloped one (Y = 2 + X) and a vertical wall
Stacked == MakeTerrain(<< Tri(0, 1, 0, 8, 0, 0, 0, 0, 8), Tri(0, 2, 0, 4, 4, 0, 0, 0, 4),
                          Tri(0, 0, 0, 4, 0, 0, 0, 5, 0) >>)
\* triangle 0 spans [0,64]^2, all others sit in the corner cell [0,1]^2
BigCorner ==
    MakeTerrain([k \in 1..BigCount |->
        IF k = 1 THEN Tri(0, 0, 0, 64, 0, 0, 0, 0, 64)
        ELSE Tri(0, 1 + (k % 2), 0, 1, 0, 0, 0, 0, 1)])
\* the grid without the spanning triangle: the sampled triangles
\* 0, 100, 200, ... do not reach the cells with X >= 40
BigSparse ==
    MakeTerrain([k \in 1..BigCount |->
        Tri(8 * ((k - 1) % 8), 1 + (k % 3), 8 * (((k - 1) \div 8) % 8), 4, 0, 0, 0, 0, 4)])

\* a flat triangle at Y = 1 under a slope that is at Y = 450 over (1, 1), and
\* a slope at Y = 455 over (5, 5) with nothing under it
Tower == MakeTerrain(<< Tri(0, 1, 0, 8, 0, 0, 0, 0, 8), Tri(0, 250, 0, 2, 200, 0, 0, 200, 2),
                        Tri(4, 255, 4, 2, 200, 0, 0, 200, 2) >>)

Terrains == {EmptyTerrain, Square, Apart, Stacked, BigCorner, BigSparse, Tower}

\* the search radii compared: none, narrow, the default, wider than the terrain
SearchRadii == {0, 1, DefaultSearchRadius, 1000}

\* query points (x, z): over a triangle, on split lines, over a gap, outside
QueryPoints == {<<0, 0>>, <<1, 1>>, <<5, 5>>, <<32, 32>>, <<40, 0>>, <<70, 70>>}
Fallbacks == {DefaultLastValidHeight, 99}

(***************************************************************************)
(* State                                                                   *)
(***************************************************************************)
VARIABLES
    terrainData,    \* terrainUtils: let terrainData
    octree,         \* terrainUtils: let octree
    octreeReady,    \* terrainUtils: let octreeReady
    sceneTerrainData,   \* ecs/Scene.tsx: let terrainData
    sceneOctree,        \* ecs/Scene.tsx: let octree
    dataCache,      \* InstancedTriangles.tsx: dataCache, url -> promise
    loaders,        \* the CameraPositioner effects: kind, position, alive
    camera,         \* camera.position
    ret             \* the last call and what it returned

vars == << terrainData, octree, octreeReady, sceneTerrainData, sceneOctree,
           dataCache, loaders, camera, ret >>
store == << terrainData, octree, octreeReady >>
sceneStore == << sceneTerrainData, sceneOctree >>
loadVars == << sceneTerrainData, sceneOctree, dataCache, loaders, camera >>

NumLoaders == 2
Loaders == 1..NumLoaders
DataUrl == "/data.bin.br"
Urls == {DataUrl}

Init ==
    /\ terrainData = Null
    /\ octree = Null
    /\ octreeReady = FALSE
    /\ sceneTerrainData = Null
    /\ sceneOctree = Null
    /\ dataCache = [u \in Urls |-> [state |-> "absent"]]
    /\ loaders = [l \in Loaders |-> [kind |-> "none", pc |-> "unmounted", alive |-> FALSE]]
    /\ camera = Vector3(0, 2, 0)
    /\ ret = [op |-> "none"]

(***************************************************************************)
(* terrainUtils, the exported functions                                    *)
(***************************************************************************)
Store == [terrainData |-> terrainData, octree |-> octree, octreeReady |-> octreeReady]
SetStore(st) ==
    /\ terrainData' = st.terrainData
    /\ octree' = st.octree
    /\ octreeReady' = st.octreeReady

\* the functions as maps from the module state before the call to the one after
setTerrainData(st, data) == [st EXCEPT !.terrainData = data]

\* faulty variant: the ready flag is set before the test for terrain data
buildTerrainOctree_readyFirst(st) ==
    IF st.terrainData = Null THEN [st EXCEPT !.octreeReady = TRUE]
    ELSE [st EXCEPT !.octree = BuildTree(st.terrainData), !.octreeReady = TRUE]

\* faulty variant: a terrain without triangles is refused, nothing is built
buildTerrainOctree_rejectEmpty(st) ==
    IF st.terrainData = Null \/ st.terrainData.count = 0 THEN st
    ELSE [st EXCEPT !.octree = BuildTree(st.terrainData), !.octreeReady = TRUE]

buildTerrainOctree(st) ==
    IF st.terrainData = Null THEN st
    ELSE [st EXCEPT !.octree = BuildTree(st.terrainData), !.octreeReady = TRUE]

isOctreeReady == octreeReady

\* Calls are sequential (one JavaScript thread): ret holds the result of the
\* call that has just run until its caller has taken it.
Idle == ret.op = "none"

Return ==
    /\ ~Idle
    /\ ret' = [op |-> "none"]
    /\ UNCHANGED << store, loadVars >>

SetTerrainData ==
    \E data \in Terrains :
        /\ Idle
        /\ SetStore(setTerrainData(Store, data))
        /\ ret' = [op |-> "setTerrainData", was |-> terrainData]
        /\ UNCHANGED loadVars

BuildTerrainOctree ==
    /\ Idle
    /\ SetStore(buildTerrainOctree(Store))
    /\ ret' = [op |-> "buildTerrainOctree", rebuild |-> octreeReady]
    /\ UNCHANGED loadVars

\* faulty variant: the traversal uses the root's children array as its
\* stack and leaves it empty
GetTerrainHeightFromOctree_consuming ==
    \E p \in QueryPoints, lastValidHeight \in Fallbacks :
      LET x == p[1]  z == p[2] IN
        /\ Idle
        /\ ret' = [op |-> "getTerrainHeightFromOctree", x |-> x, z |-> z,
                   lastValidHeight |-> lastValidHeight,
                   threw |-> getTerrainHeightFromOctreeThrows(terrainData, octree, octreeReady),
                   result |-> getTerrainHeightFromOctree(x, z, lastValidHeight,
                                                         terrainData, octree, octreeReady)]
        /\ octree' = IF terrainData # Null /\ octree # Null /\ octreeReady
                     THEN [octree EXCEPT !.children = <<>>]
                     ELSE octree
        /\ UNCHANGED << terrainData, octreeReady, loadVars >>

GetTerrainHeightFromOctree ==
    \E p \in QueryPoints, lastValidHeight \in Fallbacks :
      LET x == p[1]  z == p[2] IN
        /\ Idle
        /\ ret' = [op |-> "getTerrainHeightFromOctree", x |-> x, z |-> z,
                   lastValidHeight |-> lastValidHeight,
                   threw |-> getTerrainHeightFromOctreeThrows(terrainData, octree, octreeReady),
                   result |-> getTerrainHeightFromOctree(x, z, lastValidHeight,
                                                         terrainData, octree, octreeReady)]
        /\ UNCHANGED << store, loadVars >>

FindTerrainHeight ==
    \E p \in QueryPoints :
      LET x == p[1]  z == p[2] IN
        /\ Idle
        /\ ret' = [op |-> "findTerrainHeight", x |-> x, z |-> z,
                   result |-> findTerrainHeight(x, z, DefaultSearchRadius, terrainData)]
        /\ UNCHANGED << store, loadVars >>

Next ==
    \/ SetTerrainData
    \/ BuildTerrainOctree
    \/ GetTerrainHeightFromOctree
    \/ FindTerrainHeight
    \/ Return

Spec == Init /\ [][Next]_vars


(***************************************************************************)
(* The ITRI buffer.  An ArrayBuffer is its byteLength, the header fields   *)
(* the DataView reads at their fixed offsets, and body: the 16-bit words   *)
(* that follow the 72-byte header, body[k] at byte 72 + 2 (k - 1).         *)
(***************************************************************************)
ToU16(v) == IF v < 0 THEN v + U16Max + 1 ELSE v
ToI16(w) == IF w > I16Max THEN w - (U16Max + 1) ELSE w

WordAt(ab, byte) ==
    IF byte < HeaderEnd THEN 0 ELSE ab.body[(byte - HeaderEnd) \div 2 + 1]

\* the exporter's layout: header, base vertices, edge X, edge Y
ITRIBuffer(t) ==
    [byteLength |-> HeaderEnd + 18 * t.count,
     magic |-> "ITRI", version |-> ITRIVersion, count |-> t.count, flags |-> 0,
     v0Off |-> HeaderEnd,
     xOff |-> HeaderEnd + 6 * t.count,
     yOff |-> HeaderEnd + 12 * t.count,
     cOff |-> 0, uvOff |-> 0,
     bmin |-> t.bmin, bmax |-> t.bmax, vecRange |-> t.vecRange,
     body |-> t.v0_u16 \o [k \in 1..(3 * t.count) |-> ToU16(t.x_i16[k])]
                       \o [k \in 1..(3 * t.count) |-> ToU16(t.y_i16[k])]]

\* new Uint16Array(ab, off, n) / new Int16Array(ab, off, n): RangeError when
\* the offset is odd or the view runs past the buffer
View16Ok(ab, off, n) == off % 2 = 0 /\ off + 2 * n <= ab.byteLength
Uint16Array(ab, off, n) == [k \in 1..n |-> WordAt(ab, off + 2 * (k - 1))]
Int16Array(ab, off, n) == [k \in 1..n |-> ToI16(WordAt(ab, off + 2 * (k - 1)))]
\* new Uint8Array(ab, off, n)
View8Ok(ab, off, n) == off + n <= ab.byteLength

ParseError(msg) == [ok |-> FALSE, error |-> msg]

\* the optional arrays of parseITRI; their contents play no part in the
\* terrain queries and are kept as (offset, length)
ColorsOf(ab) ==
    IF (ab.flags % 2 = 1) /\ ab.cOff # 0
    THEN [present |-> TRUE, ok |-> View8Ok(ab, ab.cOff, ab.count * 4),
          offset |-> ab.cOff, length |-> ab.count * 4]
    ELSE [present |-> FALSE, ok |-> TRUE]
UvsOf(ab) ==
    IF ((ab.flags \div 2) % 2 = 1) /\ ab.uvOff # 0
    THEN [present |-> TRUE, ok |-> View8Ok(ab, ab.uvOff, ab.count * 6 * 4),
          offset |-> ab.uvOff, length |-> ab.count * 6]
    ELSE [present |-> FALSE, ok |-> TRUE]

\* the fields both parsers hand to the terrain store
TerrainOf(ab) ==
    [count |-> ab.count,
     v0_u16 |-> Uint16Array(ab, ab.v0Off, ab.count * 3),
     x_i16 |-> Int16Array(ab, ab.xOff, ab.count * 3),
     y_i16 |-> Int16Array(ab, ab.yOff, ab.count * 3),
     bmin |-> ab.bmin, bmax |-> ab.bmax, vecRange |-> ab.vecRange]

\* faulty variant: the version check is missing
parseITRI_noVersion(ab) ==
    IF ab.byteLength < 4 THEN ParseError("RangeError")
    ELSE IF ab.magic # "ITRI" THEN ParseError("Invalid ITRI magic")
    ELSE IF ab.byteLength < HeaderEnd THEN ParseError("RangeError")
    ELSE IF ~View16Ok(ab, ab.v0Off, ab.count * 3) THEN ParseError("RangeError")
    ELSE IF ~View16Ok(ab, ab.xOff, ab.count * 3) THEN ParseError("RangeError")
    ELSE IF ~View16Ok(ab, ab.yOff, ab.count * 3) THEN ParseError("RangeError")
    ELSE IF ~ColorsOf(ab).ok THEN ParseError("RangeError")
    ELSE IF ~UvsOf(ab).ok THEN ParseError("RangeError")
    ELSE [ok |-> TRUE, data |-> TerrainOf(ab), flags |-> ab.flags,
          colors |-> ColorsOf(ab), uvs |-> UvsOf(ab)]

\* parseITRI: the statements in order, each DataView read or typed-array
\* construction throwing RangeError when it leaves the buffer
parseITRI(ab) ==
    IF ab.byteLength < 4 THEN ParseError("RangeError")
    ELSE IF ab.magic # "ITRI" THEN ParseError("Invalid ITRI magic")
    ELSE IF ab.byteLength < 8 THEN ParseError("RangeError")
    ELSE IF ab.version # ITRIVersion THEN ParseError("Unsupported ITRI version")
    ELSE IF ab.byteLength < HeaderEnd THEN ParseError("RangeError")
    ELSE IF ~View16Ok(ab, ab.v0Off, ab.count * 3) THEN ParseError("RangeError")
    ELSE IF ~View16Ok(ab, ab.xOff, ab.count * 3) THEN ParseError("RangeError")
    ELSE IF ~View16Ok(ab, ab.yOff, ab.count * 3) THEN ParseError("RangeError")
    ELSE IF ~ColorsOf(ab).ok THEN ParseError("RangeError")
    ELSE IF ~UvsOf(ab).ok THEN ParseError("RangeError")
    ELSE [ok |-> TRUE, data |-> TerrainOf(ab), flags |-> ab.flags,
          colors |-> ColorsOf(ab), uvs |-> UvsOf(ab)]

\* the inline parse of ecs/Scene.tsx CameraPositioner: no magic or version
\* check, no optional arrays
sceneParse(ab) ==
    IF ab.byteLength < HeaderEnd THEN ParseError("RangeError")
    ELSE IF ~View16Ok(ab, ab.v0Off, ab.count * 3) THEN ParseError("RangeError")
    ELSE IF ~View16Ok(ab, ab.xOff, ab.count * 3) THEN ParseError("RangeError")
    ELSE IF ~View16Ok(ab, ab.yOff, ab.count * 3) THEN ParseError("RangeError")
    ELSE [ok |-> TRUE, data |-> TerrainOf(ab)]

(***************************************************************************)
(* What the server may answer for /data.bin.br                             *)
(***************************************************************************)
GoodSquare == ITRIBuffer(Square)
BadMagic == [GoodSquare EXCEPT !.magic = "IRTI"]
BadVersion == [GoodSquare EXCEPT !.version = 2]
\* the last word of the edge-Y array is cut off
Truncated == [GoodSquare EXCEPT !.byteLength = @ - 2, !.body = SubSeq(@, 1, Len(@) - 1)]
\* the edge-X offset points past the end
BadOffset == [GoodSquare EXCEPT !.xOff = GoodSquare.byteLength]
\* colors declared, their offset leaves fewer than count * 4 bytes
BadColors == [GoodSquare EXCEPT !.flags = 1, !.cOff = GoodSquare.byteLength - 4]
\* uvs declared, their offset leaves fewer than count * 24 bytes
BadUvs == [GoodSquare EXCEPT !.flags = 2, !.uvOff = GoodSquare.yOff]
\* colors declared and in bounds (over the edge-Y bytes)
WithColors == [GoodSquare EXCEPT !.flags = 1, !.cOff = GoodSquare.yOff]
\* a buffer that ends inside the header
ShortHeader == [GoodSquare EXCEPT !.byteLength = 40, !.body = <<>>]
\* the body of an HTTP error answer: not an ITRI file
ErrorPage == [GoodSquare EXCEPT !.byteLength = 9, !.magic = "Not ", !.body = <<>>]

GoodBuffers == {GoodSquare, ITRIBuffer(Apart), ITRIBuffer(EmptyTerrain), WithColors}
BadBuffers == {BadMagic, BadVersion, Truncated, BadOffset, BadColors, BadUvs, ShortHeader}
Buffers == GoodBuffers \cup BadBuffers

Responses ==
    {[kind |-> "ok", body |-> ab] : ab \in Buffers}
        \cup {[kind |-> "http-error", body |-> ErrorPage], [kind |-> "network-error"]}

(***************************************************************************)
(* Loading.  A loader is one run of a CameraPositioner effect: "utils" is  *)
(* the Scene that loads through fetchAndParseITRI into terrainUtils,       *)
(* "scene" is ecs/Scene.tsx, which fetches and parses inline into its own  *)
(* module variables.  Everything after an await runs to completion.        *)
(***************************************************************************)
NoCall == [op |-> "none"]

\* fetchArrayBufferMaybeBr: throws on a network failure and on !res.ok
fetchArrayBufferMaybeBr(resp) ==
    IF resp.kind = "ok" THEN [ok |-> TRUE, ab |-> resp.body]
    ELSE [ok |-> FALSE, error |-> "Failed to fetch"]

\* faulty variant: every call starts a load and stores its promise
fetchAndParseITRI_noCache(cache, url) == [cache EXCEPT ![url] = [state |-> "pending"]]

\* faulty variant: a rejected promise is replaced by a new load
fetchAndParseITRI_retry(cache, url) ==
    IF cache[url].state \in {"absent", "rejected"}
    THEN [cache EXCEPT ![url] = [state |-> "pending"]]
    ELSE cache

\* fetchAndParseITRI up to its await: a miss stores the pending promise
fetchAndParseITRI(cache, url) ==
    IF cache[url].state = "absent" THEN [cache EXCEPT ![url] = [state |-> "pending"]]
    ELSE cache

\* the camera position the loaders set from the initial raycast at (0, 0)
CameraOn(terrainY) ==
    IF terrainY.found THEN Vector3(0, terrainY.y + 2, 0) ELSE Vector3(0, 2, 0)

MountUtils ==
    \E l \in Loaders :
        /\ loaders[l].pc = "unmounted"
        /\ loaders' = [loaders EXCEPT ![l] = [kind |-> "utils", pc |-> "awaiting", alive |-> TRUE]]
        /\ dataCache' = fetchAndParseITRI(dataCache, DataUrl)
        /\ ret' = [op |-> "fetchAndParseITRI", url |-> DataUrl, was |-> dataCache[DataUrl]]
        /\ UNCHANGED << store, sceneStore, camera >>

MountScene ==
    \E l \in Loaders :
        /\ loaders[l].pc = "unmounted"
        /\ loaders' = [loaders EXCEPT ![l] = [kind |-> "scene", pc |-> "awaiting", alive |-> TRUE]]
        /\ ret' = NoCall
        /\ UNCHANGED << store, sceneStore, dataCache, camera >>

\* the effect's cleanup
Unmount ==
    \E l \in Loaders :
        /\ loaders[l].alive
        /\ loaders' = [loaders EXCEPT ![l].alive = FALSE]
        /\ ret' = NoCall
        /\ UNCHANGED << store, sceneStore, dataCache, camera >>

\* the promise in dataCache settles: the fetch answers and parseITRI runs
CacheSettle ==
    \E url \in Urls, resp \in Responses :
        /\ dataCache[url].state = "pending"
        /\ LET f == fetchArrayBufferMaybeBr(resp)
               r == IF f.ok THEN parseITRI(f.ab) ELSE f
           IN  /\ dataCache' = [dataCache EXCEPT ![url] =
                                   IF r.ok THEN [state |-> "resolved", data |-> r.data]
                                   ELSE [state |-> "rejected", error |-> r.error]]
               /\ ret' = IF f.ok THEN [op |-> "parseITRI", ab |-> f.ab, result |-> r]
                         ELSE NoCall
        /\ UNCHANGED << store, sceneStore, loaders, camera >>

\* faulty variant: buildTerrainOctree runs before setTerrainData
UtilsResume_buildFirst ==
    \E l \in Loaders :
        /\ loaders[l].kind = "utils"
        /\ loaders[l].pc = "awaiting"
        /\ dataCache[DataUrl].state \in {"resolved", "rejected"}
        /\ ret' = NoCall
        /\ UNCHANGED << sceneStore, dataCache >>
        /\ IF dataCache[DataUrl].state = "rejected"
           THEN /\ loaders' = [loaders EXCEPT ![l].pc = "failed"]
                /\ camera' = Vector3(0, 2, 0)
                /\ UNCHANGED store
           ELSE IF ~loaders[l].alive
           THEN /\ loaders' = [loaders EXCEPT ![l].pc = "discarded"]
                /\ UNCHANGED << store, camera >>
           ELSE LET data == dataCache[DataUrl].data
                    st1 == setTerrainData(buildTerrainOctree(Store), data)
                    terrainY == findTerrainHeight(0, 0, DefaultSearchRadius, st1.terrainData)
                IN  /\ camera' = CameraOn(terrainY)
                    /\ SetStore(st1)
                    /\ loaders' = [loaders EXCEPT ![l].pc = "done"]

\* the utils loader after await fetchAndParseITRI
UtilsResume ==
    \E l \in Loaders :
        /\ loaders[l].kind = "utils"
        /\ loaders[l].pc = "awaiting"
        /\ dataCache[DataUrl].state \in {"resolved", "rejected"}
        /\ ret' = NoCall
        /\ UNCHANGED << sceneStore, dataCache >>
        /\ IF dataCache[DataUrl].state = "rejected"
           THEN /\ loaders' = [loaders EXCEPT ![l].pc = "failed"]
                /\ camera' = Vector3(0, 2, 0)
                /\ UNCHANGED store
           ELSE IF ~loaders[l].alive
           THEN /\ loaders' = [loaders EXCEPT ![l].pc = "discarded"]
                /\ UNCHANGED << store, camera >>
           ELSE LET data == dataCache[DataUrl].data
                    st1 == setTerrainData(Store, data)
                    terrainY == findTerrainHeight(0, 0, DefaultSearchRadius, st1.terrainData)
                IN  /\ camera' = CameraOn(terrainY)
                    /\ SetStore(buildTerrainOctree(st1))
                    /\ loaders' = [loaders EXCEPT ![l].pc = "done"]

\* faulty variant: the catch block clears the scene's terrain variables
SceneResume_clearOnFail ==
    \E l \in Loaders, resp \in Responses :
        /\ loaders[l].kind = "scene"
        /\ loaders[l].pc = "awaiting"
        /\ ret' = NoCall
        /\ UNCHANGED << store, dataCache >>
        /\ LET p == IF resp.kind = "network-error" THEN ParseError("Failed to fetch")
                    ELSE sceneParse(resp.body)
           IN  IF ~p.ok
               THEN /\ loaders' = [loaders EXCEPT ![l].pc = "failed"]
                    /\ camera' = Vector3(0, 2, 0)
                    /\ sceneTerrainData' = Null
                    /\ sceneOctree' = Null
               ELSE IF ~loaders[l].alive
               THEN /\ sceneTerrainData' = p.data
                    /\ loaders' = [loaders EXCEPT ![l].pc = "discarded"]
                    /\ UNCHANGED << sceneOctree, camera >>
               ELSE /\ sceneTerrainData' = p.data
                    /\ camera' = CameraOn(findTerrainHeight(0, 0, DefaultSearchRadius, p.data))
                    /\ sceneOctree' = BuildTree(p.data)
                    /\ loaders' = [loaders EXCEPT ![l].pc = "done"]

\* the scene loader after await fetch / await res.arrayBuffer
SceneResume ==
    \E l \in Loaders, resp \in Responses :
        /\ loaders[l].kind = "scene"
        /\ loaders[l].pc = "awaiting"
        /\ ret' = NoCall
        /\ UNCHANGED << store, dataCache >>
        /\ LET p == IF resp.kind = "network-error" THEN ParseError("Failed to fetch")
                    ELSE sceneParse(resp.body)
           IN  IF ~p.ok
               THEN /\ loaders' = [loaders EXCEPT ![l].pc = "failed"]
                    /\ camera' = Vector3(0, 2, 0)
                    /\ UNCHANGED sceneStore
               ELSE IF ~loaders[l].alive
               THEN /\ sceneTerrainData' = p.data
                    /\ loaders' = [loaders EXCEPT ![l].pc = "discarded"]
                    /\ UNCHANGED << sceneOctree, camera >>
               ELSE /\ sceneTerrainData' = p.data
                    /\ camera' = CameraOn(findTerrainHeight(0, 0, DefaultSearchRadius, p.data))
                    /\ sceneOctree' = BuildTree(p.data)
                    /\ loaders' = [loaders EXCEPT ![l].pc = "done"]

NextLoad ==
    \/ MountUtils
    \/ MountScene
    \/ Unmount
    \/ CacheSettle
    \/ UtilsResume
    \/ SceneResume

SpecLoad == Init /\ [][NextLoad]_vars

\* some loader waits on a promise that has settled: UtilsResume is enabled
UtilsCanResume ==
    \E l \in Loaders :
        /\ loaders[l].kind = "utils"
        /\ loaders[l].pc = "awaiting"
        /\ dataCache[DataUrl].state \in {"resolved", "rejected"}

\* The fetch is answered or fails in the end, and a continuation whose
\* promise has settled is run by the event loop: weak fairness of
\* CacheSettle and of UtilsResume, the latter written out with its enabling
\* condition.
SpecLoadFair ==
    /\ SpecLoad
    /\ WF_vars(CacheSettle)
    /\ ([]<>(~UtilsCanResume) \/ []<><<UtilsResume>>_vars)

(***************************************************************************)
(* One call of buildTerrainOctree seen call by call: ret holds the calls   *)
(* of subdivideOctree still to run, the next one last.  A node is kept as  *)
(* its depth and the length of its triangle list; what the overlap test    *)
(* hands to the four children is fixed by the triangle set:                *)
(*   "all"     every triangle overlaps all four quadrants at every level,  *)
(*   "corner"  every triangle lies in the first quadrant,                  *)
(*   "quarter" the triangles are spread evenly.                            *)
(***************************************************************************)
Overlaps == {"all", "corner", "quarter"}
BuildCounts == {0, 10, MinTrianglesToSplit - 1, MinTrianglesToSplit, BigCount,
                4 * MinTrianglesToSplit}

Frame(depth, held) == [depth |-> depth, held |-> held]

\* the lengths of the four children's lists after the distribution loop
Distribute(overlap, n) ==
    IF overlap = "all" THEN << n, n, n, n >>
    ELSE IF overlap = "corner" THEN << n, 0, 0, 0 >>
    ELSE << n \div 4, n \div 4, n \div 4, n - 3 * (n \div 4) >>

\* faulty variant: the stop test looks at the list only
Stops_countOnly(depth, held, maxDepth) == held < MinTrianglesToSplit

\* if (depth >= maxDepth || node.triangles.length < 500) return
Stops(depth, held, maxDepth) == depth >= maxDepth \/ held < MinTrianglesToSplit

InitBuild ==
    /\ terrainData = Null
    /\ octree = Null
    /\ octreeReady = FALSE
    /\ sceneTerrainData = Null
    /\ sceneOctree = Null
    /\ dataCache = [u \in Urls |-> [state |-> "absent"]]
    /\ loaders = [l \in Loaders |-> [kind |-> "none", pc |-> "unmounted", alive |-> FALSE]]
    /\ camera = Vector3(0, 2, 0)
    /\ \E overlap \in Overlaps, count \in BuildCounts :
          ret = [op |-> "subdivideOctree", overlap |-> overlap,
                 stack |-> << Frame(0, count) >>]

Subdividing == ret.op = "subdivideOctree" /\ ret.stack # <<>>

\* the call returns at its first line
SubdivideReturn ==
    /\ Subdividing
    /\ LET call == ret.stack[Len(ret.stack)] IN
         /\ Stops(call.depth, call.held, MaxDepth)
         /\ ret' = [ret EXCEPT !.stack = SubSeq(@, 1, Len(@) - 1)]
    /\ UNCHANGED << store, loadVars >>

\* the call splits its node and calls itself on the four children in turn
SubdivideSplit ==
    /\ Subdividing
    /\ LET call == ret.stack[Len(ret.stack)]
           lens == Distribute(ret.overlap, call.held)
       IN  /\ ~Stops(call.depth, call.held, MaxDepth)
           /\ ret' = [ret EXCEPT !.stack =
                         SubSeq(@, 1, Len(@) - 1) \o
                         [c \in 1..4 |-> Frame(call.depth + 1, lens[5 - c])]]
    /\ UNCHANGED << store, loadVars >>

NextBuild ==
    \/ SubdivideReturn
    \/ SubdivideSplit

\* synchronous code runs on until it returns
SpecBuild == InitBuild /\ [][NextBuild]_vars /\ WF_vars(NextBuild)

(***************************************************************************)
(* The base-vertex dequantization in the arithmetic the code runs in.  A   *)
(* JavaScript number is an IEEE 754 binary64: here a sign and the set of   *)
(* exponents of the powers of two that add up to its magnitude, at most 53 *)
(* consecutive positions wide.  Each operation computes the exact result   *)
(* and rounds it to nearest, ties to even.  (Exponent range, infinities    *)
(* and NaN are left out: the header's bmin and bmax are float32 values and *)
(* raw is a uint16, which keeps every intermediate result far inside the   *)
(* range of a binary64.)                                                   *)
(***************************************************************************)
Precision == 53

MinOf(S) == CHOOSE m \in S : \A o \in S : m <= o
MaxOf(S) == 0 - MinOf({0 - k : k \in S})

Number(neg, bits) == [neg |-> neg /\ bits # {}, bits |-> bits]
FZero == Number(FALSE, {})
IntBits(n) == {k \in 0..30 : (n \div (2 ^ k)) % 2 = 1}
FromInt(i) == Number(i < 0, IntBits(Abs(i)))
\* 2^k times the magnitude
Shift(S, k) == {j + k : j \in S}

\* S + T, position by position: a carry enters position i when some lower
\* position g holds a digit of both and every position between g and i
\* holds a digit of one of them
AddBits(S, T) ==
    IF S = {} THEN T
    ELSE IF T = {} THEN S
    ELSE LET lo == Min2(MinOf(S), MinOf(T))
             hi == Max2(MaxOf(S), MaxOf(T)) + 1
             both == S \cap T
             CarryIn(i) ==
                 \E g \in both : g < i /\ \A m \in (g + 1)..(i - 1) : m \in S \/ m \in T
         IN  {i \in lo..hi : ((i \in S) # (i \in T)) # CarryIn(i)}

\* S - T, for S >= T: a borrow enters position i when some lower position g
\* holds a digit of T only and no position between g and i holds a digit of
\* S only
SubBits(S, T) ==
    IF T = {} \/ S = {} THEN S
    ELSE LET lo == Min2(MinOf(S), MinOf(T))
             hi == MaxOf(S)
             owed == T \ S
             BorrowIn(i) ==
                 \E g \in owed : g < i /\ \A m \in (g + 1)..(i - 1) : m \notin S \/ m \in T
         IN  {i \in lo..hi : ((i \in S) # (i \in T)) # BorrowIn(i)}

LessBits(S, T) == S # T /\ MaxOf((S \ T) \cup (T \ S)) \in T

\* S * T, column by column: column c holds Count(c) partial products (at most
\* 53 < 2^6 of them), and the binary digits of the counts are added up
MulBits(S, T) ==
    IF S = {} \/ T = {} THEN {}
    ELSE LET cols == (MinOf(S) + MinOf(T))..(MaxOf(S) + MaxOf(T))
             Count(c) == Cardinality({i \in S : (c - i) \in T})
             Layer(b) == {c + b : c \in {k \in cols : (Count(k) \div (2 ^ b)) % 2 = 1}}
         IN  AddBits(AddBits(AddBits(Layer(0), Layer(1)), AddBits(Layer(2), Layer(3))),
                     AddBits(Layer(4), Layer(5)))

\* round to nearest, ties to even, at 53 significant bits
RoundBits(S) ==
    IF S = {} THEN {}
    ELSE LET top == MaxOf(S)
             ulp == top - (Precision - 1)
             keep == {k \in ulp..top : k \in S}
             up == (ulp - 1) \in S /\ ((\E k \in S : k < ulp - 1) \/ ulp \in S)
         IN  IF up THEN AddBits(keep, {ulp}) ELSE keep

\* the exact result fits a binary64
Exact(S) == RoundBits(S) = S

FLess(a, b) ==
    IF a.bits = {} THEN b.bits # {} /\ ~b.neg
    ELSE IF b.bits = {} THEN a.neg
    ELSE IF a.neg # b.neg THEN a.neg
    ELSE IF a.neg THEN LessBits(b.bits, a.bits)
    ELSE LessBits(a.bits, b.bits)

FLessEq(a, b) == a = b \/ FLess(a, b)

\* the exact sum, then the rounded one
SumBits(a, b) ==
    IF a.neg = b.neg \/ a.bits = {} \/ b.bits = {}
        THEN Number(a.neg \/ b.neg, AddBits(a.bits, b.bits))
    ELSE IF a.bits = b.bits THEN FZero
    ELSE IF LessBits(a.bits, b.bits) THEN Number(b.neg, SubBits(b.bits, a.bits))
    ELSE Number(a.neg, SubBits(a.bits, b.bits))

FAdd(a, b) == LET e == SumBits(a, b) IN Number(e.neg, RoundBits(e.bits))
FNeg(a) == Number(~a.neg, a.bits)
FSub(a, b) == FAdd(a, FNeg(b))
FMul(a, b) == Number(a.neg # b.neg, RoundBits(MulBits(a.bits, b.bits)))

\* long division of r / d (0 <= r < d) in digits of 13 bits, five of them:
\* the binary digits at the positions e, e - 1, ..., e - 64 and one more
\* position standing for whatever is left over
ChunkBits == 13
Digits(r, d, e) ==
    LET radix == 2 ^ ChunkBits
        r1 == (r * radix) % d
        r2 == (r1 * radix) % d
        r3 == (r2 * radix) % d
        r4 == (r3 * radix) % d
        r5 == (r4 * radix) % d
        Chunk(from, i) == Shift(IntBits((from * radix) \div d), e + 1 - i * ChunkBits)
    IN  Chunk(r, 1) \cup Chunk(r1, 2) \cup Chunk(r2, 3) \cup Chunk(r3, 4) \cup Chunk(r4, 5)
            \cup (IF r5 > 0 THEN {e - 5 * ChunkBits} ELSE {})

\* the position of the leading digit of n / d, for 0 < n <= d
LeadingExp(n, d) == 0 - MinOf({k \in 0..30 : 2 ^ k > (d - 1) \div n})

\* n / d for integers 0 <= n <= d, d > 0
FDivInt(n, d) ==
    IF n = 0 THEN FZero
    ELSE LET t == LeadingExp(n, d)
         IN  Number(FALSE, RoundBits({t} \cup Digits(n * (2 ^ (0 - t)) - d, d, t - 1)))

\* faulty variant: the raw value is divided by 65536
dequantBase_span(raw, lo, hi) == FAdd(lo, FMul(FDivInt(raw, U16Max + 1), FSub(hi, lo)))

\* bmin + (raw / 65535) * (bmax - bmin)
dequantBase(raw, lo, hi) == FAdd(lo, FMul(FDivInt(raw, U16Max), FSub(hi, lo)))

(***************************************************************************)
(* Decoding one base-vertex component for raw, raw + 1, ... over a fixed   *)
(* box.  The boxes: the components of the model's quantization box, a      *)
(* degenerate one, and float32 pairs as a header can hold them.            *)
(***************************************************************************)
Box(lo, hi) == [lo |-> lo, hi |-> hi]
\* float32 0.1 and 0.7
F32Tenth == Number(FALSE, {-4, -5, -8, -9, -12, -13, -16, -17, -20, -21, -24, -25, -27})
F32SevenTenths == Number(FALSE, {-1, -3, -4, -7, -8, -11, -12, -15, -16, -19, -20, -23, -24})
\* float32 -812.37 and 3.3e-7: a box whose upper face is almost at zero
F32Deep == Number(TRUE, {9, 8, 5, 3, 2, -2, -4, -5, -6, -7, -9, -11, -12, -13})
F32Tiny == Number(FALSE, {-22, -24, -25, -29, -32, -34, -36, -38, -39, -41, -42, -44, -45})

QuantBoxes ==
    {Box(FromInt(QuantBmin.x), FromInt(QuantBmax.x)),
     Box(FromInt(QuantBmin.y), FromInt(QuantBmax.y))}
Boxes ==
    QuantBoxes \cup
    {Box(FromInt(7), FromInt(7)),
     Box(F32Tenth, F32SevenTenths),
     Box(FromInt(-4096), Number(FALSE, {-43})),
     Box(F32Deep, F32Tiny)}

RawRun == 260
RawStarts == {0, I16Max - RawRun \div 2, U16Max - RawRun}

InitDecode ==
    /\ terrainData = Null
    /\ octree = Null
    /\ octreeReady = FALSE
    /\ sceneTerrainData = Null
    /\ sceneOctree = Null
    /\ dataCache = [u \in Urls |-> [state |-> "absent"]]
    /\ loaders = [l \in Loaders |-> [kind |-> "none", pc |-> "unmounted", alive |-> FALSE]]
    /\ camera = Vector3(0, 2, 0)
    /\ \E b \in Boxes, first \in RawStarts :
          ret = [op |-> "decodeTriangle", box |-> b, first |-> first, raw |-> first,
                 stepped |-> FALSE,
                 prev |-> dequantBase(first, b.lo, b.hi),
                 value |-> dequantBase(first, b.lo, b.hi)]

Decoding == ret.op = "decodeTriangle"

\* the same component decoded for the next raw value
DecodeNextRaw ==
    /\ Decoding
    /\ ret.raw < U16Max
    /\ ret.raw < ret.first + RawRun
    /\ ret' = [ret EXCEPT !.raw = @ + 1, !.stepped = TRUE, !.prev = ret.value,
                          !.value = dequantBase(ret.raw + 1, ret.box.lo, ret.box.hi)]
    /\ UNCHANGED << store, loadVars >>

NextDecode == DecodeNextRaw

SpecDecode == InitDecode /\ [][NextDecode]_vars

(***************************************************************************)
(* Properties of the terrainUtils functions, checked under Spec            *)
(***************************************************************************)
Range(seq) == {seq[k] : k \in 1..Len(seq)}

\* the leaves of a tree, each with its depth
RECURSIVE Leaves(_, _)
Leaves(node, depth) ==
    IF node.children = <<>> THEN {[node |-> node, depth |-> depth]}
    ELSE UNION {Leaves(node.children[c], depth + 1) : c \in 1..Len(node.children)}

\* every triangle index stored anywhere in a tree
RECURSIVE TreeIndices(_)
TreeIndices(node) ==
    Range(node.triangles) \cup
    UNION {TreeIndices(node.children[c]) : c \in 1..Len(node.children)}

\* subdivision has run to its end: a leaf is one the stop condition leaves
\* alone, an internal node is a pure router with four children
RECURSIVE FullySubdivided(_, _)
FullySubdivided(node, depth) ==
    IF node.children = <<>>
    THEN depth >= MaxDepth \/ Len(node.triangles) < MinTrianglesToSplit
    ELSE /\ Len(node.children) = 4
         /\ node.triangles = <<>>
         /\ \A c \in 1..4 : FullySubdivided(node.children[c], depth + 1)

Unloaded == terrainData = Null
Indexed == terrainData # Null /\ octree # Null /\ octreeReady
Decoded == terrainData # Null /\ ~octreeReady
JustBuilt == ret.op = "buildTerrainOctree" /\ terrainData # Null
HeightQueried == ret.op = "getTerrainHeightFromOctree"

\* C1: a height query made while no terrain data is stored or the index is
\* not built returns exactly the lastValidHeight it was given.
C1_FallbackUntilIndexed ==
    (HeightQueried /\ (Unloaded \/ ~octreeReady)) => ret.result = ret.lastValidHeight

C1_Witness ==
    HeightQueried /\ Decoded /\ ret.lastValidHeight # DefaultLastValidHeight

\* C2: after setTerrainData has stored a new terrain, isOctreeReady() is
\* false (the service is back in Unloaded until the index is built again).
C2_NewTerrainResetsReady ==
    (ret.op = "setTerrainData" /\ ret.was # terrainData) => ~isOctreeReady

\* C3: whenever isOctreeReady() is true, terrain data is stored and every
\* triangle index held in the tree lies in [0, count) of that data.
C3_IndexMatchesTerrain ==
    octreeReady =>
        /\ terrainData # Null
        /\ octree # Null
        /\ TreeIndices(octree) \subseteq 0..(terrainData.count - 1)

\* C4: whenever a height query can traverse the tree (octree set and
\* octreeReady true) the tree is fully subdivided, after the first build
\* and after every rebuild.
C4_NoPartialTree ==
    (octree # Null /\ octreeReady) => FullySubdivided(octree, 0)

C4_Witness ==
    /\ ret.op = "buildTerrainOctree"
    /\ ret.rebuild
    /\ octree.children # <<>>

\* the XZ bounding box of triangle i of the stored terrain meets rectangle b,
\* edges included
BoxMeets(i, b) ==
    LET t == TriBox(decodeTriangle(i, terrainData)) IN
    /\ t.maxX >= b.minX /\ t.minX <= b.maxX
    /\ t.maxZ >= b.minZ /\ t.minZ <= b.maxZ

\* C8: right after buildTerrainOctree, every leaf whose rectangle meets the
\* XZ bounding box of triangle i holds i, for every i in [0, count).
C8_IndexComplete ==
    JustBuilt =>
        \A leaf \in Leaves(octree, 0) :
            \A i \in 0..(terrainData.count - 1) :
                BoxMeets(i, leaf.node.bounds) => i \in Range(leaf.node.triangles)

\* a subdivided tree in which some triangle is held by more than one leaf
C8_Witness ==
    /\ JustBuilt
    /\ octree.children # <<>>
    /\ \E l1, l2 \in Leaves(octree, 0) :
          /\ l1 # l2
          /\ Range(l1.node.triangles) \cap Range(l2.node.triangles) # {}

\* C9: right after buildTerrainOctree every index in [0, count) is stored
\* in at least one leaf.
C9_NoTriangleDropped ==
    JustBuilt => (0..(terrainData.count - 1)) \subseteq TreeIndices(octree)

\* C10: once Indexed, getTerrainHeightFromOctree(x, z, fallback) returns the
\* height findTerrainHeight(x, z) finds, and the fallback when it finds none.
C10_IndexedEqualsExhaustive ==
    (HeightQueried /\ Indexed) =>
        LET f == findTerrainHeight(ret.x, ret.z, DefaultSearchRadius, terrainData)
        IN  ret.result = IF f.found THEN f.y ELSE ret.lastValidHeight


\* (x, z) lies strictly outside the XZ extent of the mesh: beyond the least
\* or the greatest X or Z of every triangle
OutsideExtent(x, z, data) ==
    LET box(i) == TriBox(decodeTriangle(i, data))
        all == 0..(data.count - 1)
    IN  \/ \A i \in all : x < box(i).minX
        \/ \A i \in all : x > box(i).maxX
        \/ \A i \in all : z < box(i).minZ
        \/ \A i \in all : z > box(i).maxZ

\* C11: a height query at a point strictly outside the XZ extent of all
\* triangles of the loaded mesh returns exactly the fallback it was given.
C11_OutsideExtentFallback ==
    (HeightQueried /\ terrainData # Null /\ OutsideExtent(ret.x, ret.z, terrainData))
        => ret.result = ret.lastValidHeight

C11_Witness ==
    /\ HeightQueried /\ Indexed
    /\ terrainData.count > 0
    /\ OutsideExtent(ret.x, ret.z, terrainData)
    /\ ret.lastValidHeight # DefaultLastValidHeight
    /\ ret.result = ret.lastValidHeight

\* the hit parameters t of the candidates queryOctree returns for the query
\* just answered
CandidateHits ==
    LET cands == queryOctree(ret.x, ret.z, octree, octreeReady)
    IN  {h.t : h \in {g \in {RayHit(ret.x, ret.z, cands[k], terrainData) : k \in 1..Len(cands)} :
                         g.hit}}

\* C12: once Indexed, a height query returns 450 minus the least hit
\* parameter t over the candidates when some candidate is hit, and the
\* fallback when none is.
C12_TopmostOfCandidates ==
    (HeightQueried /\ Indexed) =>
        IF CandidateHits = {}
        THEN ret.result = ret.lastValidHeight
        ELSE \E m \in CandidateHits :
                /\ \A o \in CandidateHits : m <= o
                /\ ret.result = HighY - m

\* surfaces at different heights lie under the query point
C12_Witness ==
    /\ HeightQueried /\ Indexed
    /\ Cardinality(CandidateHits) >= 2
    /\ \A o \in CandidateHits : ret.result >= HighY - o

C14_EmptyTerrainIsNoError ==
    (JustBuilt /\ terrainData.count = 0) =>
        /\ octreeReady
        /\ octree # Null
        /\ octree.children = <<>>
        /\ octree.triangles = <<>>
        /\ \A p \in QueryPoints :
              /\ queryOctree(p[1], p[2], octree, octreeReady) = <<>>
              /\ \A f \in Fallbacks :
                    getTerrainHeightFromOctree(p[1], p[2], f, terrainData, octree, octreeReady) = f

C14_Witness ==
    JustBuilt /\ terrainData.count = 0 /\ octreeReady /\ octree.triangles = <<>>

\* C15: on the two-triangle square at Y = 0 (side 2 here, so that the point
\* on the shared diagonal is (1, 1)) with fallback 99, the query on the
\* diagonal and the one on the corner return 0, the query at (5, 5) returns 99.
C15_EdgeInclusiveHit ==
    (HeightQueried /\ terrainData = Square /\ octreeReady /\ octree = BuildTree(Square)
        /\ ret.lastValidHeight = 99) =>
        /\ (ret.x = 1 /\ ret.z = 1) => ret.result = 0
        /\ (ret.x = 0 /\ ret.z = 0) => ret.result = 0
        /\ (ret.x = 5 /\ ret.z = 5) => ret.result = 99

C15_Witness ==
    /\ HeightQueried /\ terrainData = Square /\ octreeReady /\ octree = BuildTree(Square)
    /\ ret.lastValidHeight = 99
    /\ ret.x = 1 /\ ret.z = 1
    /\ ret.result = 0

\* C16: a step that runs getTerrainHeightFromOctree (and queryOctree inside
\* it) or findTerrainHeight leaves terrainData, the octree and octreeReady
\* as they were.
C16_QueriesArePureReads ==
    [][(Idle /\ ret'.op \in {"getTerrainHeightFromOctree", "findTerrainHeight"})
          => store' = store]_vars

\* a query answered from a subdivided tree
C16_Witness ==
    /\ HeightQueried /\ Indexed
    /\ octree.children # <<>>
    /\ ret.result # ret.lastValidHeight

\* the tree below node is the one the stop rule gives when node is handed
\* the indices held: a node is split exactly when depth < 6 and it holds at
\* least 500 indices, and a child is handed the indices whose box meets it
RECURSIVE StopRule(_, _, _)
StopRule(node, depth, held) ==
    IF depth < MaxDepth /\ Len(held) >= MinTrianglesToSplit
    THEN /\ node.children # <<>>
         /\ \A c \in 1..Len(node.children) :
               StopRule(node.children[c], depth + 1,
                        SelectSeq(held, LAMBDA i : BoxMeets(i, node.children[c].bounds)))
    ELSE /\ node.children = <<>>
         /\ node.triangles = held

\* C17: right after buildTerrainOctree a node is split if and only if its
\* depth is below 6 and it holds at least 500 indices: with fewer than 500
\* triangles the root is a single leaf holding every index, and no node is
\* deeper than 6.
C17_StopCondition ==
    JustBuilt =>
        /\ StopRule(octree, 0, [k \in 1..terrainData.count |-> k - 1])
        /\ \A leaf \in Leaves(octree, 0) : leaf.depth <= MaxDepth
        /\ terrainData.count < MinTrianglesToSplit =>
              /\ octree.children = <<>>
              /\ octree.triangles = [k \in 1..terrainData.count |-> k - 1]

\* subdivision was stopped by the depth: a leaf at depth 6 holds 500 or more
C17_Witness ==
    /\ JustBuilt
    /\ \E leaf \in Leaves(octree, 0) :
          leaf.depth = MaxDepth /\ Len(leaf.node.triangles) >= MinTrianglesToSplit

\* the four equal quadrants of rectangle b
Quadrants(b) ==
    LET hw == (b.maxX - b.minX) \div 2
        hh == (b.maxZ - b.minZ) \div 2
    IN  {[minX |-> x0, maxX |-> x0 + hw, minZ |-> z0, maxZ |-> z0 + hh] :
            x0 \in {b.minX, b.maxX - hw}, z0 \in {b.minZ, b.maxZ - hh}}

RECURSIVE NodeShape(_)
NodeShape(node) ==
    \/ node.children = <<>>
    \/ /\ Len(node.children) = 4
       /\ node.triangles = <<>>
       /\ {node.children[c].bounds : c \in 1..4} = Quadrants(node.bounds)
       /\ Cardinality(Quadrants(node.bounds)) = 4
       /\ \A c \in 1..4 : NodeShape(node.children[c])

\* C18: every node of a built tree is a leaf or an internal node with
\* exactly four children and an empty triangle list, the children's
\* rectangles being the four equal quadrants of the parent's rectangle.
C18_NodeShape ==
    octree # Null => NodeShape(octree)

\* a tree with internal nodes on two levels at least
C18_Witness ==
    /\ octree # Null /\ octreeReady
    /\ octree.children # <<>>
    /\ \E c \in 1..4 : octree.children[c].children # <<>>

\* (x, z) lies in rectangle b, edges included
InBox(x, z, b) == b.minX <= x /\ x <= b.maxX /\ b.minZ <= z /\ z <= b.maxZ

\* (x, z) lies on the split line of an internal node whose rectangle holds it
RECURSIVE OnSplitLine(_, _, _)
OnSplitLine(node, x, z) ==
    /\ node.children # <<>>
    /\ InBox(x, z, node.bounds)
    /\ \/ 2 * x = node.bounds.minX + node.bounds.maxX
       \/ 2 * z = node.bounds.minZ + node.bounds.maxZ
       \/ \E c \in 1..Len(node.children) : OnSplitLine(node.children[c], x, z)

\* the leaves whose rectangle holds the point of the query just answered
HoldingLeaves == {l \in Leaves(octree, 0) : InBox(ret.x, ret.z, l.node.bounds)}

\* the triangle lists of leaves order[1], order[2], ... one after the other
RECURSIVE ConcatLists(_)
ConcatLists(order) ==
    IF order = <<>> THEN <<>>
    ELSE Head(order).node.triangles \o ConcatLists(Tail(order))

\* C19: for a point inside the root rectangle queryOctree returns the list
\* of exactly one leaf when the point is on no split line, and otherwise the
\* lists of all leaves whose rectangle holds the point, one after the other;
\* for a point outside the root rectangle it returns the empty list.
C19_PointQuery ==
    (HeightQueried /\ octree # Null /\ octreeReady) =>
        LET r == queryOctree(ret.x, ret.z, octree, octreeReady)
            n == Cardinality(HoldingLeaves)
        IN  /\ ~InBox(ret.x, ret.z, octree.bounds) => r = <<>>
            /\ (InBox(ret.x, ret.z, octree.bounds) /\ ~OnSplitLine(octree, ret.x, ret.z)) =>
                  /\ n = 1
                  /\ \A l \in HoldingLeaves : r = l.node.triangles
            /\ InBox(ret.x, ret.z, octree.bounds) =>
                  \E order \in [1..n -> HoldingLeaves] :
                      /\ \A l \in HoldingLeaves : \E k \in 1..n : order[k] = l
                      /\ r = ConcatLists(order)

\* the query point is on a split line and several leaves answer
C19_Witness ==
    /\ HeightQueried /\ octree # Null /\ octreeReady
    /\ OnSplitLine(octree, ret.x, ret.z)
    /\ Cardinality(HoldingLeaves) >= 2
    /\ Len(queryOctree(ret.x, ret.z, octree, octreeReady)) > 0

\* the candidates without repetition, in ascending order
Dedup(cands) ==
    SelectSeq([k \in 1..BigCount |-> k - 1], LAMBDA i : i \in Range(cands))

\* C20: when queryOctree returns an index more than once the height query
\* returns the height it returns for the candidates without repetition.
C20_DuplicatesTolerated ==
    (HeightQueried /\ Indexed) =>
        LET cands == queryOctree(ret.x, ret.z, octree, octreeReady)
            c == ClosestOver(Dedup(cands), ret.x, ret.z, terrainData)
        IN  ret.result = IF c.found THEN c.y ELSE ret.lastValidHeight

\* a candidate list with a repeated index, one of the candidates being hit
C20_Witness ==
    /\ HeightQueried /\ Indexed
    /\ LET cands == queryOctree(ret.x, ret.z, octree, octreeReady)
       IN  Len(cands) > Cardinality(Range(cands))
    /\ ret.result # ret.lastValidHeight

\* C21: in every reachable state isOctreeReady() implies that terrain data
\* is stored and the root exists, and a buildTerrainOctree call made while
\* no terrain data is stored leaves octree null and octreeReady false.
C21_StateOrdering ==
    /\ isOctreeReady => (terrainData # Null /\ octree # Null)
    /\ (ret.op = "buildTerrainOctree" /\ Unloaded) => (octree = Null /\ ~octreeReady)

\* buildTerrainOctree was called in Unloaded
C21_Witness ==
    ret.op = "buildTerrainOctree" /\ Unloaded /\ ~isOctreeReady

FoundByScan == ret.op = "findTerrainHeight"

\* C24: the search-radius bound of findTerrainHeight only rejects triangles
\* the vertical ray at (x, z) cannot hit: the result of a scan is the same
\* for every search radius r >= 0.
C24_RadiusIsCheapReject ==
    FoundByScan =>
        \A r \in SearchRadii : findTerrainHeight(ret.x, ret.z, r, terrainData) = ret.result

\* a scan that found a surface although radius 0 rejects some triangle
C24_Witness ==
    /\ FoundByScan
    /\ ret.result.found
    /\ \E k \in 1..terrainData.count :
          ~InRadius(ret.x, ret.z, 0, decodeTriangle(k - 1, terrainData))

\* C25: with both indexes built from the same terrain data, Scene.tsx's
\* getTerrainHeightFast(x, z) equals terrainUtils'
\* getTerrainHeightFromOctree(x, z, 2) at every query point.
C25_CopiesAgree ==
    (/\ HeightQueried
     /\ Indexed
     /\ octree = BuildTree(terrainData)
     /\ ret.lastValidHeight = DefaultLastValidHeight)
        => ret.result = getTerrainHeightFast(ret.x, ret.z, terrainData, octree)

\* a hit in a subdivided index
C25_Witness ==
    /\ HeightQueried
    /\ Indexed
    /\ octree = BuildTree(terrainData)
    /\ octree.children # <<>>
    /\ ret.lastValidHeight = DefaultLastValidHeight
    /\ ret.result # DefaultLastValidHeight

\* C28: a height that is not the fallback is strictly below the ray origin
\* height 450: a surface at or above Y = 450 at the query point is never
\* reported, a lower surface or the fallback is returned instead.
C28_BelowRayOrigin ==
    /\ HeightQueried => (ret.result = ret.lastValidHeight \/ ret.result < HighY)
    /\ (FoundByScan /\ ret.result.found) => ret.result.y < HighY
    /\ (HeightQueried /\ Indexed /\ terrainData = Tower /\ octree = BuildTree(Tower)) =>
          /\ (ret.x = 1 /\ ret.z = 1) => ret.result = 1
          /\ (ret.x = 5 /\ ret.z = 5) => ret.result = ret.lastValidHeight

\* the surface at Y = 450 over (1, 1) is passed over for the one at Y = 1
C28_Witness ==
    /\ HeightQueried
    /\ Indexed
    /\ terrainData = Tower
    /\ octree = BuildTree(Tower)
    /\ ret.x = 1 /\ ret.z = 1
    /\ ret.result = 1

(***************************************************************************)
(* Properties of loading, checked under SpecLoad                           *)
(***************************************************************************)
\* loader l runs its continuation in this step
Resumes(l) == loaders[l].pc = "awaiting" /\ loaders'[l].pc # "awaiting"

\* C5: when the continuation of a loader that was cancelled during its fetch
\* runs, neither terrain store is written and no index is built.
C5_CancelledLoadDiscarded ==
    [][\A l \in Loaders :
          (Resumes(l) /\ ~loaders[l].alive) => (store' = store /\ sceneStore' = sceneStore)]_vars

\* the buffer's magic or version is wrong, or a declared array does not fit:
\* count * 3 16-bit elements for the base and edge arrays, count * 4 bytes
\* of colors, count * 6 32-bit floats of uvs
Malformed(ab) ==
    \/ ab.magic # "ITRI"
    \/ ab.version # 1
    \/ ab.v0Off + 2 * (3 * ab.count) > ab.byteLength
    \/ ab.xOff + 2 * (3 * ab.count) > ab.byteLength
    \/ ab.yOff + 2 * (3 * ab.count) > ab.byteLength
    \/ (ab.flags % 2 = 1 /\ ab.cOff # 0 /\ ab.cOff + 4 * ab.count > ab.byteLength)
    \/ ((ab.flags \div 2) % 2 = 1 /\ ab.uvOff # 0 /\ ab.uvOff + 24 * ab.count > ab.byteLength)

\* C6: parseITRI ends in an error, returning no data, for every buffer with
\* a wrong magic, a wrong version or an array that runs past the buffer.
C6_MalformedRejected ==
    (ret.op = "parseITRI" /\ Malformed(ret.ab)) => ~ret.result.ok

\* a buffer with the right magic and version whose arrays do not fit
C6_Witness ==
    /\ ret.op = "parseITRI"
    /\ ret.ab.magic = "ITRI" /\ ret.ab.version = 1 /\ ret.ab.byteLength >= HeaderEnd
    /\ Malformed(ret.ab)
    /\ ~ret.result.ok

\* C7: a load attempt that fails (fetch error or format error) leaves both
\* terrain stores as they were.
C7_FailedLoadKeepsStore ==
    [][\A l \in Loaders :
          (Resumes(l) /\ loaders'[l].pc = "failed") => (store' = store /\ sceneStore' = sceneStore)]_vars

\* a loader has failed while a terrain and its index are in place
C7_Witness ==
    \E l \in Loaders :
        /\ loaders[l].pc = "failed"
        /\ loaders[l].kind = "scene"
        /\ sceneTerrainData # Null /\ sceneOctree # Null

\* loader l loads through fetchAndParseITRI into terrainUtils
UtilsLoader(l) == loaders[l].kind = "utils"

\* the continuation of l ran setTerrainData, findTerrainHeight(0, 0) on the
\* terrain just stored, and buildTerrainOctree on it, and the service is Indexed
LoadedInOrder(l) ==
    /\ loaders[l].pc = "done"
    /\ Indexed
    /\ terrainData = dataCache[DataUrl].data
    /\ octree = BuildTree(terrainData)

\* C22: a load through fetchAndParseITRI ends; when fetch and parse succeeded
\* and the loader was not cancelled it has stored the terrain, searched the
\* height at (0, 0) and built the index, and the service is Indexed.
C22_LoadReachesIndexed ==
    /\ \A l \in Loaders :
          (UtilsLoader(l) /\ loaders[l].pc = "awaiting")
              ~> (loaders[l].pc \in {"failed", "discarded"} \/ LoadedInOrder(l))
    /\ [](\A l \in Loaders : (UtilsLoader(l) /\ loaders[l].pc = "done") => Indexed)

\* a load that went through, the camera standing on the terrain it found
C22_Witness ==
    \E l \in Loaders :
        /\ UtilsLoader(l) /\ LoadedInOrder(l)
        /\ terrainData.count > 0
        /\ camera = CameraOn(findTerrainHeight(0, 0, DefaultSearchRadius, terrainData))
        /\ camera.y # 2

(***************************************************************************)
(* Properties of one build, checked under SpecBuild                        *)
(***************************************************************************)
BuildDone == ret.op = "subdivideOctree" /\ ret.stack = <<>>

\* C23: buildTerrainOctree terminates for every triangle set, also when
\* every triangle overlaps all four quadrants at every level: no call of
\* subdivideOctree is deeper than 6 and the last call returns.
C23_BuildTerminates ==
    /\ [](ret.op = "subdivideOctree" =>
             \A k \in 1..Len(ret.stack) : ret.stack[k].depth <= MaxDepth)
    /\ <>BuildDone

\* no child holds fewer indices than its parent, and a call at depth 6
\* still holds 500 or more
C23_Witness ==
    /\ Subdividing
    /\ ret.overlap = "all"
    /\ ret.stack[Len(ret.stack)].depth = MaxDepth
    /\ ret.stack[Len(ret.stack)].held >= MinTrianglesToSplit

Fetched == ret.op = "fetchAndParseITRI"

\* C26: fetchAndParseITRI starts at most one fetch-and-parse per URL: a call
\* for a URL already in dataCache, also while the first load is in flight,
\* leaves the stored promise in place, a settled promise never changes, and
\* every loader that completes receives the data of that one promise.
C26_OneLoadPerUrl ==
    /\ [](Fetched /\ ret.was.state # "absent" => dataCache[ret.url] = ret.was)
    /\ [][\A u \in Urls :
            /\ dataCache'[u].state = "pending" =>
                   dataCache[u].state \in {"absent", "pending"}
            /\ dataCache[u].state # "absent" => dataCache'[u].state # "absent"
            /\ dataCache[u].state = "resolved" => dataCache'[u] = dataCache[u]]_vars
    /\ [](\A l \in Loaders :
            (UtilsLoader(l) /\ loaders[l].pc = "done") =>
                (dataCache[DataUrl].state = "resolved" /\ terrainData = dataCache[DataUrl].data))

\* a second call while the first load is still in flight
C26_Witness ==
    /\ Fetched
    /\ ret.was.state = "pending"
    /\ \E l1, l2 \in Loaders :
          l1 # l2 /\ UtilsLoader(l1) /\ UtilsLoader(l2)
              /\ loaders[l1].pc = "awaiting" /\ loaders[l2].pc = "awaiting"

\* C27: a failed load is cached: the rejected promise stays in dataCache, a
\* later fetchAndParseITRI of that URL starts no new load, and every caller
\* that resumes on it fails with the stored error.
C27_FailureIsCached ==
    /\ [](Fetched /\ ret.was.state = "rejected" => dataCache[ret.url] = ret.was)
    /\ [][\A u \in Urls :
            dataCache[u].state = "rejected" => dataCache'[u] = dataCache[u]]_vars
    /\ [][\A l \in Loaders :
            (UtilsLoader(l) /\ Resumes(l) /\ dataCache[DataUrl].state = "rejected") =>
                (loaders'[l].pc = "failed" /\ store' = store)]_vars

\* a call made after the load of the URL has failed
C27_Witness ==
    /\ Fetched
    /\ ret.was.state = "rejected"
    /\ dataCache[ret.url].state = "rejected"

=============================================================================
